---- MODULE Spec2Model ----
(***************************************************************************)
(* Model of src/common.rs: the Header constructors (Header::from_bytes,    *)
(* <Header as FromStr>::from_str) and the HTTPVersion comparisons.         *)
(*                                                                         *)
(* A &str is a sequence of Unicode scalar values (code points); a byte     *)
(* string is a sequence of numbers in 0..255.  str::as_bytes is the UTF-8  *)
(* encoding.  A Result<Header, ()> is a record: ok = TRUE with the stored  *)
(* field and value bytes, or Err.                                          *)
(***************************************************************************)
EXTENDS Integers, Sequences, FiniteSets

VARIABLES pc, call, input, header, value, self, other, third, pair, result

vars == <<pc, call, input, header, value, self, other, third, pair, result>>

(***************************************************************************)
(* Bounds of the model.                                                    *)
(***************************************************************************)
\* longest header line handed to from_str
MaxLen == 5
\* longest header ++ value handed to from_bytes
MaxBytes == 4
\* version components are drawn from 0..MaxVer and 255
MaxVer == 2

\* code points a line is made of:
\*   HT, LF, CR, SP, '"', ':', 'A', 'a', U+00A0 (no-break space), U+00E9 (e acute)
Chars == {9, 10, 13, 32, 34, 58, 65, 97, 160, 233}
\* bytes the arguments of from_bytes are made of:
\*   NUL, HT, CR, SP, '"', ':', 'A', 'a', DEL, 0xE9
Bytes == {0, 9, 13, 32, 34, 58, 65, 97, 127, 233}

SeqsUpTo(S, n) == UNION {[1..k -> S] : k \in 0..n}

U8 == (0..MaxVer) \cup {255}

(***************************************************************************)
(* The http crate's types, as the constructors use them.                   *)
(***************************************************************************)
Err == [ok |-> FALSE, field |-> <<>>, value |-> <<>>]
Ok(f, v) == [ok |-> TRUE, field |-> f, value |-> v]

\* http::header::name::MAX_HEADER_NAME_LEN = (1 << 16) - 1
MAX_HEADER_NAME_LEN == 2^16 - 1

\* http::header::name::HEADER_CHARS: a byte's canonical (lower-case) form,
\* or 0 when the byte may not occur in a header name.  The non-zero entries
\* are the RFC 7230 token characters; the double quote (34) maps to 0.
HEADER_CHARS(b) ==
    IF b \in 65..90 THEN b + 32
    ELSE IF b \in (48..57) \cup (97..122)
                 \cup {33, 35, 36, 37, 38, 39, 42, 43, 45, 46, 94, 95, 96, 124, 126}
         THEN b
    ELSE 0

\* HeaderName::from_bytes without its test for the empty name
HeaderName_from_bytes_AllowsEmpty(src) ==
    IF Len(src) > MAX_HEADER_NAME_LEN THEN Err
    ELSE IF \E i \in 1..Len(src) : HEADER_CHARS(src[i]) = 0 THEN Err
    ELSE Ok([i \in 1..Len(src) |-> HEADER_CHARS(src[i])], <<>>)

\* HeaderName::from_bytes: empty and over-long names are errors, every
\* byte is mapped through HEADER_CHARS and a 0 is an error.
HeaderName_from_bytes(src) ==
    IF Len(src) = 0 \/ Len(src) > MAX_HEADER_NAME_LEN THEN Err
    ELSE IF \E i \in 1..Len(src) : HEADER_CHARS(src[i]) = 0 THEN Err
    ELSE Ok([i \in 1..Len(src) |-> HEADER_CHARS(src[i])], <<>>)

\* is_valid without its lower limit: control bytes pass
is_valid_NoLowerLimit(b) == b # 127

\* http::header::value::is_valid
is_valid(b) == (b >= 32 /\ b # 127) \/ b = 9

\* HeaderValue::from_bytes (and HeaderValue::from_str, which checks the
\* same bytes): every byte must pass is_valid; the bytes are kept as is.
HeaderValue_from_bytes(src) ==
    IF \E i \in 1..Len(src) : ~is_valid(src[i]) THEN Err
    ELSE Ok(<<>>, src)

(***************************************************************************)
(* std: str::as_bytes, str::splitn(2, ':'), str::trim.                     *)
(***************************************************************************)
\* UTF-8 encoding of one scalar value
encode_utf8(c) ==
    IF c < 128 THEN <<c>>
    ELSE IF c < 2048 THEN <<192 + (c \div 64), 128 + (c % 64)>>
    ELSE IF c < 65536
         THEN <<224 + (c \div 4096), 128 + ((c \div 64) % 64), 128 + (c % 64)>>
    ELSE <<240 + (c \div 262144), 128 + ((c \div 4096) % 64),
           128 + ((c \div 64) % 64), 128 + (c % 64)>>

\* str::as_bytes: the encodings of the scalar values, in order (computed
\* by halves, so that a line of any length is encoded in shallow recursion)
RECURSIVE as_bytes(_)
as_bytes(s) ==
    IF Len(s) = 0 THEN <<>>
    ELSE IF Len(s) = 1 THEN encode_utf8(s[1])
    ELSE LET h == Len(s) \div 2
         IN  as_bytes(SubSeq(s, 1, h)) \o as_bytes(SubSeq(s, h + 1, Len(s)))

\* char::is_whitespace: the Unicode White_Space property
is_whitespace(c) ==
    c \in (9..13) \cup {32, 133, 160, 5760} \cup (8192..8202)
          \cup {8232, 8233, 8239, 8287, 12288}

\* trim that strips the front only (str::trim_start)
trim_StartOnly(s) ==
    LET keep == {i \in 1..Len(s) : ~is_whitespace(s[i])}
    IN  IF keep = {} THEN <<>>
        ELSE SubSeq(s, CHOOSE i \in keep : \A j \in keep : i <= j, Len(s))

\* trim that strips the space character only (trim_matches(' '))
trim_SpacesOnly(s) ==
    LET keep == {i \in 1..Len(s) : s[i] # 32}
    IN  IF keep = {} THEN <<>>
        ELSE SubSeq(s, CHOOSE i \in keep : \A j \in keep : i <= j,
                       CHOOSE i \in keep : \A j \in keep : i >= j)

\* str::trim
trim(s) ==
    LET keep == {i \in 1..Len(s) : ~is_whitespace(s[i])}
    IN  IF keep = {} THEN <<>>
        ELSE SubSeq(s, CHOOSE i \in keep : \A j \in keep : i <= j,
                       CHOOSE i \in keep : \A j \in keep : i >= j)

\* a split at the last ':' instead of the first (rsplitn)
splitn_AtLastColon(s) ==
    LET at == {i \in 1..Len(s) : s[i] = 58}
    IN  IF at = {} THEN <<s>>
        ELSE LET i == CHOOSE i \in at : \A j \in at : i >= j
             IN  <<SubSeq(s, 1, i - 1), SubSeq(s, i + 1, Len(s))>>

\* input.splitn(2, ':') collected: one element when there is no ':', else
\* the text before the first ':' and everything after it.
splitn(s) ==
    LET at == {i \in 1..Len(s) : s[i] = 58}
    IN  IF at = {} THEN <<s>>
        ELSE LET i == CHOOSE i \in at : \A j \in at : i <= j
             IN  <<SubSeq(s, 1, i - 1), SubSeq(s, i + 1, Len(s))>>

(***************************************************************************)
(* Header                                                                  *)
(***************************************************************************)
\* Header::from_bytes
from_bytes(h, v) ==
    LET name == HeaderName_from_bytes(h)
    IN  IF ~name.ok THEN Err
        ELSE LET val == HeaderValue_from_bytes(v)
             IN  IF ~val.ok THEN Err
                 ELSE Ok(name.field, val.value)

\* from_str that trims the name segment before parsing it
from_str_TrimmedName(s) ==
    LET elems == splitn(s)
        field == HeaderName_from_bytes(as_bytes(trim(elems[1])))
    IN  IF ~field.ok THEN Err
        ELSE IF Len(elems) < 2 THEN Err
        ELSE LET val == HeaderValue_from_bytes(as_bytes(trim(elems[2])))
             IN  IF ~val.ok THEN Err
                 ELSE Ok(field.field, val.value)

\* from_str that takes a missing value segment as the empty value
from_str_MissingValueEmpty(s) ==
    LET elems == splitn(s)
        field == HeaderName_from_bytes(as_bytes(elems[1]))
    IN  IF ~field.ok THEN Err
        ELSE LET val == HeaderValue_from_bytes(
                            IF Len(elems) < 2 THEN <<>> ELSE as_bytes(trim(elems[2])))
             IN  IF ~val.ok THEN Err
                 ELSE Ok(field.field, val.value)

\* from_str that stores the value segment untrimmed
from_str_Untrimmed(s) ==
    LET elems == splitn(s)
        field == HeaderName_from_bytes(as_bytes(elems[1]))
    IN  IF ~field.ok THEN Err
        ELSE IF Len(elems) < 2 THEN Err
        ELSE LET val == HeaderValue_from_bytes(as_bytes(elems[2]))
             IN  IF ~val.ok THEN Err
                 ELSE Ok(field.field, val.value)

\* <Header as FromStr>::from_str
from_str(s) ==
    LET elems == splitn(s)
        field == HeaderName_from_bytes(as_bytes(elems[1]))
    IN  IF ~field.ok THEN Err
        ELSE IF Len(elems) < 2 THEN Err
        ELSE LET val == HeaderValue_from_bytes(as_bytes(trim(elems[2])))
             IN  IF ~val.ok THEN Err
                 ELSE Ok(field.field, val.value)

(***************************************************************************)
(* HTTPVersion                                                             *)
(***************************************************************************)
HTTPVersion(major, minor) == [major |-> major, minor |-> minor]

\* u8::cmp
u8_cmp(a, b) == IF a < b THEN "Less" ELSE IF a = b THEN "Equal" ELSE "Greater"

\* #[derive(PartialEq, Eq)] for HTTPVersion
HTTPVersion_eq(a, b) == a.major = b.major /\ a.minor = b.minor

\* cmp that looks at the minor component first
cmp_MinorFirst(a, b) ==
    IF a.minor # b.minor THEN u8_cmp(a.minor, b.minor)
    ELSE u8_cmp(a.major, b.major)

\* Ord::cmp for HTTPVersion
cmp(a, b) ==
    IF a.major # b.major THEN u8_cmp(a.major, b.major)
    ELSE u8_cmp(a.minor, b.minor)

Some(x) == <<"Some", x>>

\* PartialOrd::partial_cmp for HTTPVersion
partial_cmp(a, b) == Some(cmp(a, b))

\* PartialEq<(u8, u8)> for HTTPVersion
eq_pair(a, p) == HTTPVersion_eq(a, HTTPVersion(p[1], p[2]))

\* PartialEq<HTTPVersion> for (u8, u8)
pair_eq(p, b) == HTTPVersion_eq(HTTPVersion(p[1], p[2]), b)

\* PartialOrd<(u8, u8)> for HTTPVersion
partial_cmp_pair(a, p) == partial_cmp(a, HTTPVersion(p[1], p[2]))

\* the pair on the left compared as if it were on the right
pair_partial_cmp_Unreversed(p, b) == partial_cmp(b, HTTPVersion(p[1], p[2]))

\* PartialOrd<HTTPVersion> for (u8, u8)
pair_partial_cmp(p, b) == partial_cmp(HTTPVersion(p[1], p[2]), b)

\* From<(u8, u8)> for HTTPVersion
from(p) == HTTPVersion(p[1], p[2])

\* the comparison operators PartialOrd derives from partial_cmp
lt(o) == o = Some("Less")
le(o) == o \in {Some("Less"), Some("Equal")}
gt(o) == o = Some("Greater")
ge(o) == o \in {Some("Greater"), Some("Equal")}

(***************************************************************************)
(* The state machine: one call of one operation on inputs drawn in Init.   *)
(***************************************************************************)
Versions == {HTTPVersion(a, b) : a \in U8, b \in U8}
Pairs == U8 \X U8
NoVersion == HTTPVersion(0, 0)

NoHeaderArgs == input = <<>> /\ header = <<>> /\ value = <<>>
NoVersionArgs ==
    self = NoVersion /\ other = NoVersion /\ third = NoVersion /\ pair = <<0, 0>>

InitHeader ==
    /\ pc = "start"
    /\ result = Err
    /\ NoVersionArgs
    /\ \/ /\ call = "from_str"
          /\ input \in SeqsUpTo(Chars, MaxLen)
          /\ header = <<>>
          /\ value = <<>>
       \/ /\ call = "from_bytes"
          /\ input = <<>>
          /\ \E s \in SeqsUpTo(Bytes, MaxBytes) : \E k \in 0..Len(s) :
                /\ header = SubSeq(s, 1, k)
                /\ value = SubSeq(s, k + 1, Len(s))

\* a line whose name is n times 'a', with the value "a"
LongLine(n) == [i \in 1..(n + 2) |-> IF i = n + 1 THEN 58 ELSE 97]

\* InitHeader, and from_str on the two lines whose names are as long as
\* HeaderName allows and one byte longer
InitHeaderLong ==
    \/ InitHeader
    \/ /\ pc = "start"
       /\ result = Err
       /\ NoVersionArgs
       /\ call = "from_str"
       /\ input \in {LongLine(MAX_HEADER_NAME_LEN), LongLine(MAX_HEADER_NAME_LEN + 1)}
       /\ header = <<>>
       /\ value = <<>>

InitVersion ==
    /\ pc = "start"
    /\ result = Err
    /\ NoHeaderArgs
    /\ self \in Versions
    /\ \/ /\ call = "cmp"
          /\ other \in Versions
          /\ third \in Versions
          /\ pair = <<0, 0>>
       \/ /\ call \in {"eq_pair", "pair_eq", "partial_cmp_pair", "pair_partial_cmp", "from"}
          /\ other = NoVersion
          /\ third = NoVersion
          /\ pair \in Pairs

Return(r) ==
    /\ pc = "start"
    /\ pc' = "done"
    /\ result' = r
    /\ UNCHANGED <<call, input, header, value, self, other, third, pair>>

FromStr == call = "from_str" /\ Return(from_str(input))
FromBytes == call = "from_bytes" /\ Return(from_bytes(header, value))
Cmp == call = "cmp" /\ Return(cmp(self, other))
EqPair == call = "eq_pair" /\ Return(eq_pair(self, pair))
PairEq == call = "pair_eq" /\ Return(pair_eq(pair, self))
PartialCmpPair == call = "partial_cmp_pair" /\ Return(partial_cmp_pair(self, pair))
PairPartialCmp == call = "pair_partial_cmp" /\ Return(pair_partial_cmp(pair, self))
From == call = "from" /\ Return(from(pair))

NextHeader == FromStr \/ FromBytes
NextVersion == Cmp \/ EqPair \/ PairEq \/ PartialCmpPair \/ PairPartialCmp \/ From

SpecHeader == InitHeader /\ [][NextHeader]_vars
SpecHeaderLong == InitHeaderLong /\ [][NextHeader]_vars
SpecVersion == InitVersion /\ [][NextVersion]_vars

Init == InitHeaderLong \/ InitVersion
Next == NextHeader \/ NextVersion
Spec == Init /\ [][Next]_vars

(***************************************************************************)
(* Vocabulary of the properties: the grammar as the specification words    *)
(* it, and the split of a line at its first colon.                         *)
(***************************************************************************)
Done(c) == pc = "done" /\ call = c

HasColon(s) == \E i \in 1..Len(s) : s[i] = 58
FirstColon(s) == CHOOSE i \in 1..Len(s) : s[i] = 58 /\ \A j \in 1..(i - 1) : s[j] # 58
NameSegment(s) == [i \in 1..(FirstColon(s) - 1) |-> s[i]]
RestSegment(s) == LET c == FirstColon(s) IN [i \in 1..(Len(s) - c) |-> s[c + i]]
Colons(s) == Cardinality({i \in 1..Len(s) : s[i] = 58})

\* RFC 7230 tchar, token
IsTchar(b) ==
    \/ b \in 48..57
    \/ b \in 65..90
    \/ b \in 97..122
    \/ b \in {33, 35, 36, 37, 38, 39, 42, 43, 45, 46, 94, 95, 96, 124, 126}
IsToken(bs) == Len(bs) > 0 /\ \A i \in 1..Len(bs) : IsTchar(bs[i])
Lower(bs) == [i \in 1..Len(bs) |-> IF bs[i] \in 65..90 THEN bs[i] + 32 ELSE bs[i]]

\* space, tab
IsOWS(b) == b \in {9, 32}
\* visible US-ASCII, space, tab
IsVisibleOrOWS(b) == b \in 33..126 \/ IsOWS(b)
\* a control byte other than tab
IsControl(b) == (b < 32 /\ b # 9) \/ b = 127

\* s without its leading and its trailing elements that satisfy W
Strip(s, W(_)) ==
    LET n == Len(s)
        lead == Cardinality({i \in 1..n : \A j \in 1..i : W(s[j])})
        trail == Cardinality({i \in 1..n : \A j \in i..n : W(s[j])})
    IN  IF lead = n THEN <<>> ELSE [i \in 1..(n - lead - trail) |-> s[lead + i]]

NoOuterOWS(bs) == bs = <<>> \/ (~IsOWS(bs[1]) /\ ~IsOWS(bs[Len(bs)]))

(***************************************************************************)
(* C1: from_str rejects every line whose name segment (the text before the *)
(* first colon) holds a space or a tab anywhere, whatever the value is.    *)
(***************************************************************************)
C1_NameWhitespaceRejected ==
    (/\ Done("from_str")
     /\ HasColon(input)
     /\ \E i \in 1..Len(NameSegment(input)) : IsOWS(NameSegment(input)[i]))
    => ~result.ok

\* a line that is a header but for one space or tab in its name is rejected
C1_Witness ==
    /\ Done("from_str")
    /\ HasColon(input)
    /\ \E i \in 1..Len(NameSegment(input)) : IsOWS(NameSegment(input)[i])
    /\ IsToken(as_bytes(Strip(NameSegment(input), IsOWS)))
    /\ \A i \in 1..Len(RestSegment(input)) : IsVisibleOrOWS(RestSegment(input)[i])
    /\ ~result.ok

(***************************************************************************)
(* C2: from_str splits at the first colon only.  For a line with a valid   *)
(* name and two or more colons, a returned Header has the text before the  *)
(* first colon as its name and all the text after the first colon, later   *)
(* colons included, as its value, with only the surrounding whitespace     *)
(* removed; and it is returned whenever that value is grammar-valid.       *)
(***************************************************************************)
C2_SplitAtFirstColon ==
    (/\ Done("from_str")
     /\ Colons(input) >= 2
     /\ IsToken(as_bytes(NameSegment(input))))
    => LET v == Strip(RestSegment(input), is_whitespace)
       IN  /\ (\A i \in 1..Len(v) : IsVisibleOrOWS(v[i])) => result.ok
           /\ result.ok =>
                 /\ result.field = Lower(as_bytes(NameSegment(input)))
                 /\ result.value = as_bytes(v)

\* "a: :a"-like lines: the stored value keeps a colon and inner whitespace
C2_Witness ==
    /\ Done("from_str")
    /\ Colons(input) >= 2
    /\ result.ok
    /\ \E i \in 1..Len(result.value) : result.value[i] = 58
    /\ \E i \in 2..(Len(result.value) - 1) : IsOWS(result.value[i])

(***************************************************************************)
(* C3 as stated: from_bytes returns a Header exactly when the name is a    *)
(* non-empty token and every value byte is visible US-ASCII, space or tab. *)
(***************************************************************************)
C3_Original ==
    Done("from_bytes") =>
        (result.ok <=> /\ IsToken(header)
                       /\ \A i \in 1..Len(value) : IsVisibleOrOWS(value[i]))

(***************************************************************************)
(* C3 amended: from_bytes returns a Header exactly when the name is a      *)
(* non-empty token of at most 65535 bytes and every value byte is visible  *)
(* US-ASCII, space, tab or a byte in 0x80-0xFF; every other input (a       *)
(* control byte in the value: 0x00-0x1F but tab, or 0x7F) gives the error  *)
(* and no Header.                                                          *)
(***************************************************************************)
C3_Amended ==
    Done("from_bytes") =>
        (result.ok <=> /\ IsToken(header)
                       /\ Len(header) <= 65535
                       /\ \A i \in 1..Len(value) :
                             IsVisibleOrOWS(value[i]) \/ value[i] \in 128..255)

\* a Header whose value holds a byte above 0x7F
C3_Witness ==
    /\ Done("from_bytes")
    /\ result.ok
    /\ \E i \in 1..Len(value) : value[i] \in 128..255

(***************************************************************************)
(* C4 as stated: for every line Name ":" OWS Value OWS with a token Name   *)
(* and a grammar-valid Value, from_str succeeds, the stored field is Name  *)
(* in lower case and the stored value is Value without the surrounding     *)
(* whitespace.                                                             *)
(***************************************************************************)
C4_Original ==
    LET name == as_bytes(NameSegment(input))
        rest == RestSegment(input)
    IN  (/\ Done("from_str")
         /\ HasColon(input)
         /\ IsToken(name)
         /\ \A i \in 1..Len(rest) : IsVisibleOrOWS(rest[i]))
        => /\ result.ok
           /\ result.field = Lower(name)
           /\ result.value = as_bytes(Strip(rest, IsOWS))

(***************************************************************************)
(* C4 amended: for every line Name ":" OWS Value OWS with a token Name of  *)
(* at most 65535 bytes and a grammar-valid Value, from_str succeeds, the   *)
(* stored field is Name in lower case and the stored value is Value        *)
(* without the surrounding whitespace; with a Name of more than 65535      *)
(* bytes from_str fails.                                                   *)
(***************************************************************************)
C4_WellFormedLineParses ==
    LET name == as_bytes(NameSegment(input))
        rest == RestSegment(input)
    IN  /\ (/\ Done("from_str")
            /\ HasColon(input)
            /\ IsToken(name)
            /\ Len(name) <= 65535
            /\ \A i \in 1..Len(rest) : IsVisibleOrOWS(rest[i]))
           => /\ result.ok
              /\ result.field = Lower(name)
              /\ result.value = as_bytes(Strip(rest, IsOWS))
        /\ (Done("from_str") /\ HasColon(input) /\ Len(name) > 65535) => ~result.ok

\* "A: a "-like lines: upper case in the name, whitespace on both sides
C4_Witness ==
    /\ Done("from_str")
    /\ HasColon(input)
    /\ Len(input) <= MaxLen
    /\ \E i \in 1..Len(NameSegment(input)) : NameSegment(input)[i] \in 65..90
    /\ Len(RestSegment(input)) >= 3
    /\ IsOWS(RestSegment(input)[1])
    /\ IsOWS(RestSegment(input)[Len(RestSegment(input))])
    /\ result.ok
    /\ result.value # <<>>
    /\ result.field # as_bytes(NameSegment(input))

(***************************************************************************)
(* C5: from_str fails for every line without a colon, a valid token        *)
(* included.                                                               *)
(***************************************************************************)
C5_NoColonRejected ==
    (Done("from_str") /\ ~HasColon(input)) => ~result.ok

\* a colon-free token such as "Aa" is rejected
C5_Witness ==
    /\ Done("from_str")
    /\ ~HasColon(input)
    /\ IsToken(as_bytes(input))
    /\ ~result.ok

(***************************************************************************)
(* C6 as stated: every Header either constructor returns stores a value    *)
(* with no leading and no trailing space or tab.                           *)
(***************************************************************************)
C6_Original ==
    (pc = "done" /\ result.ok) => NoOuterOWS(result.value)

(***************************************************************************)
(* C6 amended: every Header from_str returns stores a value with no        *)
(* leading and no trailing space or tab; from_bytes stores the value bytes *)
(* it is given as they are, surrounding whitespace included.               *)
(***************************************************************************)
C6_Amended ==
    /\ (Done("from_str") /\ result.ok) => NoOuterOWS(result.value)
    /\ (Done("from_bytes") /\ result.ok) => result.value = value

\* from_bytes returns a Header whose value starts and ends with whitespace
C6_Witness ==
    /\ Done("from_bytes")
    /\ result.ok
    /\ Len(result.value) >= 2
    /\ IsOWS(result.value[1])
    /\ IsOWS(result.value[Len(result.value)])

(***************************************************************************)
(* C7 as stated: for a line with a colon, from_str(line) and               *)
(* from_bytes(name, rest) have the same outcome.                           *)
(***************************************************************************)
C7_Original ==
    (Done("from_str") /\ HasColon(input)) =>
        result = from_bytes(as_bytes(NameSegment(input)), as_bytes(RestSegment(input)))

(***************************************************************************)
(* C7 amended: for a line with a colon, from_str(line) and                 *)
(* from_bytes(name, rest without its leading and trailing whitespace) have *)
(* the same outcome: both fail, or both succeed with equal field and       *)
(* value.                                                                  *)
(***************************************************************************)
C7_Amended ==
    (Done("from_str") /\ HasColon(input)) =>
        result = from_bytes(as_bytes(NameSegment(input)),
                            as_bytes(Strip(RestSegment(input), is_whitespace)))

\* a parsed line whose value segment had whitespace to lose
C7_Witness ==
    /\ Done("from_str")
    /\ HasColon(input)
    /\ result.ok
    /\ result.value # <<>>
    /\ result.value # as_bytes(RestSegment(input))

(***************************************************************************)
(* C8: HTTPVersion::cmp is the lexicographic order on (major, minor): it   *)
(* is decided by major and by minor only when the majors are equal, it is  *)
(* antisymmetric, transitive and total, and it returns Equal exactly when  *)
(* the derived == holds.                                                   *)
(***************************************************************************)
Reverse(o) == CASE o = "Less" -> "Greater" [] o = "Greater" -> "Less" [] OTHER -> o

C8_CmpLexicographicTotalOrder ==
    Done("cmp") =>
        /\ result \in {"Less", "Equal", "Greater"}
        /\ (self.major < other.major) => result = "Less"
        /\ (self.major > other.major) => result = "Greater"
        /\ (self.major = other.major /\ self.minor < other.minor) => result = "Less"
        /\ (self.major = other.major /\ self.minor > other.minor) => result = "Greater"
        /\ (result = "Equal") <=> HTTPVersion_eq(self, other)
        /\ cmp(other, self) = Reverse(result)
        /\ (result # "Greater" /\ cmp(other, third) # "Greater")
               => cmp(self, third) # "Greater"
        /\ (result = "Less" /\ cmp(other, third) # "Greater")
               => cmp(self, third) = "Less"

\* two versions told apart by the minor alone, below a third
C8_Witness ==
    /\ Done("cmp")
    /\ self.major = other.major
    /\ self.minor < other.minor
    /\ other.minor < other.major
    /\ result = "Less"
    /\ cmp(other, third) = "Less"

(***************************************************************************)
(* C9: comparing an HTTPVersion with a raw pair, in either operand order,  *)
(* gives the equality and the ordering of comparing it with                *)
(* HTTPVersion::from(pair); v == p iff p == v, and v < p iff p > v.        *)
(***************************************************************************)
C9_PairComparisonsNormalize ==
    /\ Done("eq_pair") =>
          /\ result = HTTPVersion_eq(self, from(pair))
          /\ result = pair_eq(pair, self)
    /\ Done("pair_eq") =>
          /\ result = HTTPVersion_eq(from(pair), self)
          /\ result = eq_pair(self, pair)
    /\ Done("partial_cmp_pair") =>
          /\ result = partial_cmp(self, from(pair))
          /\ lt(result) <=> gt(pair_partial_cmp(pair, self))
          /\ gt(result) <=> lt(pair_partial_cmp(pair, self))
          /\ (le(result) /\ ge(result)) <=> eq_pair(self, pair)
    /\ Done("pair_partial_cmp") =>
          /\ result = partial_cmp(from(pair), self)
          /\ lt(result) <=> gt(partial_cmp_pair(self, pair))
          /\ gt(result) <=> lt(partial_cmp_pair(self, pair))
          /\ (le(result) /\ ge(result)) <=> pair_eq(pair, self)

\* (1, 1) > HTTPVersion(1, 0)-like: a pair on the left, decided by the minor
C9_Witness ==
    /\ Done("pair_partial_cmp")
    /\ pair[1] = self.major
    /\ pair[2] > self.minor
    /\ gt(result)

(***************************************************************************)
(* C10: no Header either constructor returns has a control byte (0x00-0x1F *)
(* but tab, or 0x7F) in its value, an empty name, or a name with a colon,  *)
(* a space, a tab or a control byte; a line with a CR or LF inside the     *)
(* value, or with an empty name, is rejected.                              *)
(***************************************************************************)
C10_NoControlBytesNoEmptyName ==
    /\ (pc = "done" /\ result.ok) =>
          /\ \A i \in 1..Len(result.value) : ~IsControl(result.value[i])
          /\ result.field # <<>>
          /\ \A i \in 1..Len(result.field) :
                ~(result.field[i] = 58 \/ IsOWS(result.field[i]) \/ IsControl(result.field[i]))
    /\ (/\ Done("from_str")
        /\ HasColon(input)
        /\ LET v == Strip(RestSegment(input), is_whitespace)
           IN  \E i \in 1..Len(v) : v[i] \in {10, 13})
       => ~result.ok
    /\ (Done("from_str") /\ HasColon(input) /\ NameSegment(input) = <<>>) => ~result.ok
    /\ (Done("from_bytes") /\ header = <<>>) => ~result.ok

\* "a:a\ra"-like lines: a CR or LF between two value bytes is rejected
C10_Witness ==
    /\ Done("from_str")
    /\ HasColon(input)
    /\ IsToken(as_bytes(NameSegment(input)))
    /\ Len(RestSegment(input)) = 3
    /\ IsTchar(RestSegment(input)[1])
    /\ RestSegment(input)[2] \in {10, 13}
    /\ IsTchar(RestSegment(input)[3])
    /\ ~result.ok

====
